---------------------------- MODULE Spec2Model ----------------------------
(* tiny-ptz: the PTZ camera controller (src/src/camera.rs), the key-event *)
(* dispatcher with its rate gate (src/src/app.rs) and the main loop       *)
(* (src/src/main.rs), as a state machine.                                 *)
EXTENDS Integers, Sequences, FiniteSets, TLC

(**************************************************************************)
(* i32: the width of every position, bound and step (camera.rs:8-10).     *)
(**************************************************************************)
I32_MAX == 2147483647
I32_MIN == (-I32_MAX) - 1
U16_MAX == 65535

(**************************************************************************)
(* Natural numbers of any size, as little-endian sequences of limbs in    *)
(* 0..Base-1 without high zero limbs (<<>> is 0).  They carry the 53-bit  *)
(* significands of f64 and the exact intermediate results.                *)
(**************************************************************************)
LimbBits == 15
Base == 2^LimbBits

RECURSIVE NatNorm(_)
NatNorm(a) ==
    IF a = <<>> THEN a
    ELSE IF a[Len(a)] = 0 THEN NatNorm(SubSeq(a, 1, Len(a) - 1)) ELSE a

RECURSIVE NatFromInt(_)
NatFromInt(n) ==
    IF n = 0 THEN <<>> ELSE <<n % Base>> \o NatFromInt(n \div Base)

RECURSIVE NatToInt(_)
NatToInt(a) ==
    IF a = <<>> THEN 0 ELSE a[1] + Base * NatToInt(Tail(a))

NatRest(a) == IF a = <<>> THEN a ELSE Tail(a)
NatLow(a) == IF a = <<>> THEN 0 ELSE a[1]

RECURSIVE NatAddC(_, _, _)
NatAddC(a, b, c) ==
    IF a = <<>> /\ b = <<>> THEN (IF c = 0 THEN <<>> ELSE <<c>>)
    ELSE LET x == NatLow(a) + NatLow(b) + c
         IN  <<x % Base>> \o NatAddC(NatRest(a), NatRest(b), x \div Base)

NatAdd(a, b) == NatAddC(a, b, 0)

RECURSIVE NatSubB(_, _, _)
NatSubB(a, b, br) ==
    IF a = <<>> THEN <<>>
    ELSE LET x == a[1] - NatLow(b) - br
         IN  <<x % Base>> \o NatSubB(Tail(a), NatRest(b), IF x < 0 THEN 1 ELSE 0)

\* a - b, for a >= b
NatSub(a, b) == NatNorm(NatSubB(a, b, 0))

RECURSIVE NatCmpAt(_, _, _)
NatCmpAt(a, b, i) ==
    IF i = 0 THEN 0
    ELSE IF a[i] < b[i] THEN -1
    ELSE IF a[i] > b[i] THEN 1
    ELSE NatCmpAt(a, b, i - 1)

\* -1, 0, 1 as a < b, a = b, a > b
NatCmp(a, b) ==
    IF Len(a) < Len(b) THEN -1
    ELSE IF Len(a) > Len(b) THEN 1
    ELSE NatCmpAt(a, b, Len(a))

RECURSIVE NatMulSmallC(_, _, _)
NatMulSmallC(a, k, c) ==
    IF a = <<>> THEN (IF c = 0 THEN <<>> ELSE <<c>>)
    ELSE LET x == a[1] * k + c
         IN  <<x % Base>> \o NatMulSmallC(Tail(a), k, x \div Base)

\* a * k, for 0 <= k <= Base
NatMulSmall(a, k) == IF k = 0 THEN <<>> ELSE NatMulSmallC(a, k, 0)

RECURSIVE NatMul(_, _)
NatMul(a, b) ==
    IF a = <<>> \/ b = <<>> THEN <<>>
    ELSE LET hi == NatMul(a, Tail(b))
         IN  NatAdd(NatMulSmall(a, b[1]), IF hi = <<>> THEN hi ELSE <<0>> \o hi)

RECURSIVE NatDivSmallAt(_, _, _, _)
NatDivSmallAt(a, k, i, r) ==
    IF i = 0 THEN <<>>
    ELSE LET x == r * Base + a[i]
         IN  NatDivSmallAt(a, k, i - 1, x % k) \o <<x \div k>>

\* floor(a / k), for 0 < k <= Base
NatDivSmall(a, k) == NatNorm(NatDivSmallAt(a, k, Len(a), 0))

RECURSIVE NatZeros(_)
NatZeros(n) == IF n = 0 THEN <<>> ELSE <<0>> \o NatZeros(n - 1)

\* a * 2^n
NatShl(a, n) ==
    IF a = <<>> THEN a
    ELSE NatZeros(n \div LimbBits) \o NatMulSmall(a, 2^(n % LimbBits))

\* floor(a / 2^n)
NatShr(a, n) ==
    IF n \div LimbBits >= Len(a) THEN <<>>
    ELSE NatDivSmall(SubSeq(a, (n \div LimbBits) + 1, Len(a)), 2^(n % LimbBits))

RECURSIVE BitLenSmall(_)
BitLenSmall(x) == IF x = 0 THEN 0 ELSE 1 + BitLenSmall(x \div 2)

NatBitLen(a) ==
    IF a = <<>> THEN 0 ELSE LimbBits * (Len(a) - 1) + BitLenSmall(a[Len(a)])

NatBit(a, i) ==
    IF (i \div LimbBits) + 1 > Len(a) THEN 0
    ELSE (a[(i \div LimbBits) + 1] \div 2^(i % LimbBits)) % 2

NatOdd(a) == NatLow(a) % 2 = 1

RECURSIVE NatDigit(_, _, _, _)
\* the largest d' >= d with d' - d < 2^(j+1) and den * d' <= cur (binary search)
NatDigit(cur, den, d, j) ==
    IF j < 0 THEN d
    ELSE IF NatCmp(NatMulSmall(den, d + 2^j), cur) <= 0
         THEN NatDigit(cur, den, d + 2^j, j - 1)
         ELSE NatDigit(cur, den, d, j - 1)

RECURSIVE NatDivTop(_, _, _)
\* quotient and remainder of (the limbs i.. of num) / den: long division, one
\* limb of num at a time from the top
NatDivTop(num, den, i) ==
    IF i > Len(num) THEN [q |-> <<>>, r |-> <<>>]
    ELSE LET p   == NatDivTop(num, den, i + 1)
             cur == NatNorm(<<num[i]>> \o p.r)
             dg  == NatDigit(cur, den, 0, LimbBits - 1)
         IN  [q |-> NatNorm(<<dg>> \o p.q), r |-> NatSub(cur, NatMulSmall(den, dg))]

\* quotient and remainder of num / den, for den > 0
NatDivMod(num, den) == NatDivTop(num, den, 1)

(**************************************************************************)
(* f64 (IEEE 754 binary64, round to nearest, ties to even), as Rust's     *)
(* `as f64`, `/`, `*`, `-` and `as i32` compute it.  A finite value is    *)
(* s * m * 2^e with a significand m of at most 53 bits.  The magnitudes   *)
(* the controller produces stay far from the subnormal and overflow       *)
(* ranges, so the exponent is unbounded here.                             *)
(**************************************************************************)
SigBits == 53

FNaN == [k |-> "nan"]
FInf(s) == [k |-> "inf", s |-> s]
FZero == [k |-> "fin", s |-> 1, m |-> <<>>, e |-> 0]

\* the f64 nearest to s * M * 2^e
FRound(s, M, e) ==
    LET d == NatBitLen(M) - SigBits
    IN  IF M = <<>> THEN FZero
        ELSE IF d <= 0 THEN [k |-> "fin", s |-> s, m |-> M, e |-> e]
        ELSE LET q    == NatShr(M, d)
                 rem  == NatSub(M, NatShl(q, d))
                 c    == NatCmp(rem, NatShl(<<1>>, d - 1))
                 up   == c > 0 \/ (c = 0 /\ NatOdd(q))
             IN  [k |-> "fin", s |-> s,
                  m |-> IF up THEN NatAdd(q, <<1>>) ELSE q, e |-> e + d]

\* n as f64, for an i32 n (exact)
FFromInt(n) ==
    IF n = 0 THEN FZero
    ELSE IF n = I32_MIN THEN [k |-> "fin", s |-> -1, m |-> NatShl(<<1>>, 31), e |-> 0]
    ELSE [k |-> "fin", s |-> IF n < 0 THEN -1 ELSE 1,
          m |-> NatFromInt(IF n < 0 THEN -n ELSE n), e |-> 0]

FIsZero(x) == x.k = "fin" /\ x.m = <<>>

FDiv(x, y) ==
    IF x.k = "nan" \/ y.k = "nan" THEN FNaN
    ELSE IF x.k = "inf" THEN (IF y.k = "inf" THEN FNaN ELSE FInf(x.s * y.s))
    ELSE IF y.k = "inf" THEN FZero
    ELSE IF FIsZero(y) THEN (IF FIsZero(x) THEN FNaN ELSE FInf(x.s * y.s))
    ELSE IF FIsZero(x) THEN FZero
    ELSE LET K  == SigBits + 3 + NatBitLen(y.m)
             d  == NatDivMod(NatShl(x.m, K), y.m)
             \* the quotient's bits, then one sticky bit for the remainder
             M  == NatAdd(NatMulSmall(d.q, 2), IF d.r = <<>> THEN <<>> ELSE <<1>>)
         IN  FRound(x.s * y.s, M, x.e - y.e - K - 1)

FMul(x, y) ==
    IF x.k = "nan" \/ y.k = "nan" THEN FNaN
    ELSE IF x.k = "inf" \/ y.k = "inf"
         THEN (IF FIsZero(x) \/ FIsZero(y) THEN FNaN ELSE FInf(x.s * y.s))
    ELSE FRound(x.s * y.s, NatMul(x.m, y.m), x.e + y.e)

FNeg(x) == IF x.k = "nan" \/ FIsZero(x) THEN x ELSE [x EXCEPT !.s = -x.s]

FSub(x, y) ==
    IF x.k = "nan" \/ y.k = "nan" THEN FNaN
    ELSE IF x.k = "inf" THEN (IF y.k = "inf" /\ y.s = x.s THEN FNaN ELSE x)
    ELSE IF y.k = "inf" THEN FInf(-y.s)
    ELSE IF FIsZero(y) THEN x
    ELSE IF FIsZero(x) THEN FNeg(y)
    ELSE LET e  == IF x.e < y.e THEN x.e ELSE y.e
             X  == NatShl(x.m, x.e - e)
             Y  == NatShl(y.m, y.e - e)
         IN  IF x.s # y.s THEN FRound(x.s, NatAdd(X, Y), e)
             ELSE IF NatCmp(X, Y) >= 0 THEN FRound(x.s, NatSub(X, Y), e)
             ELSE FRound(-x.s, NatSub(Y, X), e)

\* Rust's `x as i32`: toward zero, saturating, NaN to 0
FToI32(x) ==
    IF x.k = "nan" THEN 0
    ELSE IF x.k = "inf" THEN (IF x.s > 0 THEN I32_MAX ELSE I32_MIN)
    ELSE LET mag == IF x.e >= 0 THEN NatShl(x.m, x.e) ELSE NatShr(x.m, -x.e)
         IN  IF NatBitLen(mag) > 31 THEN (IF x.s > 0 THEN I32_MAX ELSE I32_MIN)
             ELSE IF x.s > 0 THEN NatToInt(mag) ELSE -NatToInt(mag)

\* the literals 1.0 and 0.9 of camera.rs:53 (0.9 is the f64 nearest to 9/10)
F_1_0 == FFromInt(1)
F_0_9 == FDiv(FFromInt(9), FFromInt(10))

\* Rust's `x as u16`: toward zero, saturating, NaN to 0
FToU16(x) ==
    IF x.k = "nan" THEN 0
    ELSE IF x.k = "inf" THEN (IF x.s > 0 THEN U16_MAX ELSE 0)
    ELSE IF x.s < 0 THEN 0
    ELSE LET mag == IF x.e >= 0 THEN NatShl(x.m, x.e) ELSE NatShr(x.m, -x.e)
         IN  IF NatBitLen(mag) > 16 THEN U16_MAX ELSE NatToInt(mag)

(**************************************************************************)
(* i32 arithmetic.  The operators return the wrapped result; the ..Ovf    *)
(* predicates tell whether the exact result leaves i32, where a build     *)
(* with overflow checks panics and a build without them wraps.            *)
(**************************************************************************)
I32AddOvf(a, b) ==
    (b > 0 /\ a > I32_MAX - b) \/ (b < 0 /\ a < I32_MIN - b)

I32Add(a, b) ==
    IF ~I32AddOvf(a, b) THEN a + b
    ELSE IF b > 0 THEN ((a - I32_MAX) - 1) + ((b - I32_MAX) - 1)
    ELSE ((a + I32_MAX) + 1) + ((b + I32_MAX) + 1)

I32SubOvf(a, b) ==
    (b < 0 /\ a > I32_MAX + b) \/ (b > 0 /\ a < I32_MIN + b)

I32Sub(a, b) ==
    IF ~I32SubOvf(a, b) THEN a - b
    ELSE IF b = I32_MIN THEN a + I32_MIN
    ELSE I32Add(a, -b)

I32NegOvf(a) == a = I32_MIN

I32Neg(a) == IF a = I32_MIN THEN a ELSE -a

\* Ord::clamp for min <= max (it panics otherwise: see clamp_panics)
clamp(v, min, max) == IF v < min THEN min ELSE IF v > max THEN max ELSE v

clamp_panics(min, max) == min > max

(**************************************************************************)
(* Configurations (config.toml, read by main.rs:22-25 and never checked): *)
(* per axis min, max and step.  The `device` string only names the target *)
(* of the external commands and is left out.                              *)
(**************************************************************************)
ControlConfig(min, max, step) == [min |-> min, max |-> max, step |-> step]

CameraConfig(pan, tilt, zoom) == [pan |-> pan, tilt |-> tilt, zoom |-> zoom]

Configs ==
    { \* the spec's scenario scaled down: 0 and 50 lie inside every range
      CameraConfig(ControlConfig(-7, 7, 10), ControlConfig(0, 5, 10), ControlConfig(0, 100, 50)),
      \* 0 and 50 lie below the ranges
      CameraConfig(ControlConfig(5, 20, 10), ControlConfig(0, 5, 10), ControlConfig(60, 100, 20)),
      \* 50 lies above the zoom range
      CameraConfig(ControlConfig(-7, 7, 10), ControlConfig(0, 5, 10), ControlConfig(0, 10, 5)),
      \* pan.min > pan.max
      CameraConfig(ControlConfig(10, -10, 10), ControlConfig(0, 5, 10), ControlConfig(0, 100, 50)),
      \* a zoom range of zero, at 50 and above it
      CameraConfig(ControlConfig(-7, 7, 10), ControlConfig(0, 5, 10), ControlConfig(50, 50, 5)),
      CameraConfig(ControlConfig(-7, 7, 10), ControlConfig(0, 5, 10), ControlConfig(60, 60, 5)),
      \* steps of zero and below
      CameraConfig(ControlConfig(-7, 7, 0), ControlConfig(-5, 5, -10), ControlConfig(0, 100, 50)),
      \* a pan two below its upper bound after the first move, the zoom at its minimum
      CameraConfig(ControlConfig(98, 100, 10), ControlConfig(0, 5, 10), ControlConfig(50, 100, 50)),
      \* wide ranges, the zoom in the middle of its range
      CameraConfig(ControlConfig(-100, 100, 10), ControlConfig(-100, 100, 10), ControlConfig(0, 100, 5)) }

TransportResults == {"ok", "failed", "io_error"}
SpawnResults == {"pid", "no_pid", "failed", "io_error"}
\* what comes of Command::new("kill")..output(): the signal is delivered, or the
\* command could not be run
KillResults == {"ok", "io_error"}
MoveKeys == {"Left", "Right", "Up", "Down", "ShiftUp", "ShiftDown"}
Keys == MoveKeys \cup {"v", "q", "other"}

\* Duration::from_millis(100), in ms
command_interval == 100

\* the clock stops at MaxTime ms after App::new; key events come Dts ms apart
MaxTime == 300
Dts == {50, 100}
\* key events are counted up to MaxNth
MaxNth == 3
\* process ids the system hands out
MaxPid == 2
Pids == 1..MaxPid
None == 0

VARIABLES
    config,             \* CameraController.config
    overflow_checks,    \* the build: TRUE panics on i32 overflow, FALSE wraps
    pan_current, tilt_current, zoom_current,
    pan_prev, tilt_prev, zoom_prev,
    should_quit, status_message, last_command_time, video_feed_pid,
    now,                \* the Instant the last key event read, ms after App::new
    pc,                 \* where main is: "draw", "recv", "quit", "exited", "panicked"
    shown,              \* what the last terminal.draw rendered
    device,             \* per control, the last value v4l2-ctl accepted
    feeds,              \* the ffplay processes started by the app and running
    last                \* what the last key event did

camera == <<pan_current, tilt_current, zoom_current, pan_prev, tilt_prev, zoom_prev>>
app == <<should_quit, status_message, last_command_time, video_feed_pid>>
vars == <<config, overflow_checks, camera, app, now, pc, shown, device, feeds, last>>

Msg(text) == [text |-> text, ctl |-> "", value |-> 0, diag |-> ""]
NoCall == [made |-> FALSE, ctl |-> "", value |-> 0, result |-> ""]
NoEvent == [key |-> "none", outcome |-> "none", op |-> "none", ok |-> TRUE,
            err |-> Msg(""), sent |-> "none", ret |-> "none", call |-> NoCall, delta |-> 0,
            accepted_at |-> -1, accepted_before |-> -1, nth |-> 0]

(**************************************************************************)
(* camera.rs                                                              *)
(**************************************************************************)
zoom_adjusted_step(zmin, zmax, zc, base_step) ==
    LET zoom_range      == I32Sub(zmax, zmin)
        zoom_normalized == FDiv(FFromInt(I32Sub(zc, zmin)), FFromInt(zoom_range))
        zoom_factor     == FSub(F_1_0, FMul(zoom_normalized, F_0_9))
    IN  [ovf |-> I32SubOvf(zmax, zmin) \/ I32SubOvf(zc, zmin),
         v   |-> FToI32(FMul(FFromInt(base_step), zoom_factor))]

\* zoom positions a configuration of Cs can be at: 50, and its range
ZoomPositions(z) == {50} \cup (z.min .. z.max)

MemoKeys(Cs) ==
    UNION { { <<c.zoom.min, c.zoom.max, zc, b>> :
                zc \in ZoomPositions(c.zoom),
                b \in {c.pan.step, c.tilt.step, c.zoom.step} } : c \in Cs }

\* inputs of the zoom-adjusted step on their own (see SpecStep)
StepConfigs ==
    { CameraConfig(ControlConfig(-100, 100, b), ControlConfig(-100, 100, b + 3), z) :
        b \in {1, 5, 7, 10, 20}, z \in {ControlConfig(45, 55, 1), ControlConfig(60, 80, 1)} }

\* the steps of every configuration and zoom position, computed once
StepMemo ==
    [a \in MemoKeys(Configs \cup StepConfigs) |-> zoom_adjusted_step(a[1], a[2], a[3], a[4])]

\* fn get_zoom_adjusted_step(&self, base_step): the step, and whether the i32
\* subtractions overflowed on the way
get_zoom_adjusted_step(base_step) ==
    StepMemo[<<config.zoom.min, config.zoom.max, zoom_current, base_step>>]

get_zoom_adjusted_pan_step == get_zoom_adjusted_step(config.pan.step)

get_zoom_adjusted_tilt_step == get_zoom_adjusted_step(config.tilt.step)

\* fn send_v4l2_command(&self, control_name, value, current_prev_value), with the
\* outcome tr of running v4l2-ctl
send_v4l2_command(control_name, value, current_prev_value, tr) ==
    IF current_prev_value = value
    THEN [ret |-> "Ok(false)", err |-> Msg(""), call |-> NoCall]
    ELSE LET call == [made |-> TRUE, ctl |-> control_name, value |-> value, result |-> tr]
         IN  IF tr = "io_error"
             THEN [ret |-> "Err", err |-> [Msg("{}") EXCEPT !.diag = "io error"], call |-> call]
             ELSE IF tr = "failed"
             THEN [ret |-> "Err", call |-> call,
                   err |-> [text |-> "Error setting {} to {}: {}", ctl |-> control_name,
                            value |-> value, diag |-> "stderr"]]
             ELSE [ret |-> "Ok(true)", err |-> Msg(""), call |-> call]

\* an operation that panicked returns nothing and leaves the fields as they were
Panicked(cur, prev) ==
    [panic |-> TRUE, cur |-> cur, prev |-> prev, ok |-> TRUE, err |-> Msg(""),
     sent |-> "none", ret |-> "panic", call |-> NoCall, delta |-> 0]

\* prev is never recorded
prev_after_never(s, new, prev) == prev

\* prev is recorded whenever v4l2-ctl was run, whatever came of it
prev_after_attempt(s, new, prev) == IF s.ret = "Ok(false)" THEN prev ELSE new

\* camera.rs:99-101: if self.send_v4l2_command(..)? { self.pan_prev = self.pan_current; }
prev_after(s, new, prev) == IF s.ret = "Ok(true)" THEN new ELSE prev

\* camera.rs:99-101: what set_pan hands back to its caller, a Result<()>
set_result(s) == IF s.ret = "Err" THEN "Err" ELSE "Ok(())"

\* lines 96-101, 109-113 and 117-121: add, clamp, store, send, record
move_and_send(control_name, cfg, cur, prev, delta, delta_ovf, tr) ==
    IF overflow_checks /\ (delta_ovf \/ I32AddOvf(cur, delta)) THEN Panicked(cur, prev)
    ELSE IF clamp_panics(cfg.min, cfg.max) THEN Panicked(cur, prev)
    ELSE LET new == clamp(I32Add(cur, delta), cfg.min, cfg.max)
             s   == send_v4l2_command(control_name, new, prev, tr)
         IN  [panic |-> FALSE, cur |-> new, prev |-> prev_after(s, new, prev),
              ok |-> s.ret # "Err", err |-> s.err, sent |-> s.ret, ret |-> set_result(s),
              call |-> s.call, delta |-> delta]

\* the step is taken as configured, whatever the zoom
actual_delta_unadjusted(delta, adjusted_step) == delta

\* camera.rs:94 and 107: the direction of delta with the magnitude of the adjusted step
actual_delta(delta, adjusted_step) ==
    IF delta > 0 THEN adjusted_step.v ELSE I32Neg(adjusted_step.v)

actual_delta_ovf(delta, adjusted_step) ==
    adjusted_step.ovf \/ (~(delta > 0) /\ I32NegOvf(adjusted_step.v))

\* the body that set_pan and set_tilt share, for the adjusted step of the axis
set_adjusted(control_name, cfg, cur, prev, delta, delta_ovf, adjusted_step, tr) ==
    move_and_send(control_name, cfg, cur, prev, actual_delta(delta, adjusted_step),
                  delta_ovf \/ actual_delta_ovf(delta, adjusted_step), tr)

\* pub fn set_pan(&mut self, delta) -> Result<()>
set_pan(delta, delta_ovf, tr) ==
    set_adjusted("pan_absolute", config.pan, pan_current, pan_prev, delta, delta_ovf,
                 get_zoom_adjusted_step(config.pan.step), tr)

\* the tilt is sent under the pan's control name
set_tilt_wrong_control(delta, delta_ovf, tr) ==
    set_adjusted("pan_absolute", config.tilt, tilt_current, tilt_prev, delta, delta_ovf,
                 get_zoom_adjusted_step(config.tilt.step), tr)

\* pub fn set_tilt(&mut self, delta) -> Result<()>
set_tilt(delta, delta_ovf, tr) ==
    set_adjusted("tilt_absolute", config.tilt, tilt_current, tilt_prev, delta, delta_ovf,
                 get_zoom_adjusted_step(config.tilt.step), tr)

\* the zoom takes the zoom-adjusted step as the pan and the tilt do
set_zoom_adjusted(delta, delta_ovf, tr) ==
    set_adjusted("zoom_absolute", config.zoom, zoom_current, zoom_prev, delta, delta_ovf,
                 get_zoom_adjusted_step(config.zoom.step), tr)

\* pub fn set_zoom(&mut self, delta) -> Result<()>
set_zoom(delta, delta_ovf, tr) ==
    move_and_send("zoom_absolute", config.zoom, zoom_current, zoom_prev, delta, delta_ovf, tr)

(**************************************************************************)
(* ui.rs                                                                  *)
(**************************************************************************)
\* ui.rs:63: the gauge's percentage, and whether the i32 subtractions overflowed
zoom_percentage(zmin, zmax, zc) ==
    [ovf |-> I32SubOvf(zc, zmin) \/ I32SubOvf(zmax, zmin),
     v   |-> FToU16(FMul(FDiv(FFromInt(I32Sub(zc, zmin)), FFromInt(I32Sub(zmax, zmin))),
                         FFromInt(100)))]

\* the percentages of every configuration and zoom position, computed once
PercentMemo ==
    [a \in UNION { { <<c.zoom.min, c.zoom.max, zc>> : zc \in ZoomPositions(c.zoom) } :
                   c \in Configs \cup StepConfigs } |-> zoom_percentage(a[1], a[2], a[3])]

\* pub fn render(f, app): the frame, or a panic (an i32 overflow in a build that
\* checks, or Gauge::percent's assertion that the percentage is at most 100), for
\* the gauge's percentage and the two steps shown
render_frame(pct, ps, ts) ==
    [panic |-> (overflow_checks /\ (pct.ovf \/ ps.ovf \/ ts.ovf)) \/ pct.v > 100,
     frame |-> [pan |-> pan_current, tilt |-> tilt_current, zoom |-> zoom_current,
                percent |-> pct.v, pan_step |-> ps.v, tilt_step |-> ts.v,
                status |-> status_message]]

render ==
    render_frame(PercentMemo[<<config.zoom.min, config.zoom.max, zoom_current>>],
                 get_zoom_adjusted_pan_step, get_zoom_adjusted_tilt_step)

Blank == [pan |-> 0, tilt |-> 0, zoom |-> 0, percent |-> 0, pan_step |-> 0, tilt_step |-> 0,
          status |-> Msg("")]

(**************************************************************************)
(* app.rs                                                                 *)
(**************************************************************************)
\* app.rs:35-37 and 132-134: let _ = Command::new("kill").arg(pid).output(), the
\* processes left running after it
kill(pid, kr) == IF kr = "ok" THEN feeds \ {pid} ELSE feeds

\* fn toggle_video_feed(&mut self), with the outcome fr of running sh, the
\* process id p the shell reports and the outcome kr of running kill
toggle_video_feed(fr, p, kr) ==
    IF video_feed_pid # None
    THEN [pid |-> None, feeds |-> kill(video_feed_pid, kr), status |-> Msg("Video feed stopped.")]
    ELSE IF fr = "pid"
    THEN [pid |-> p, feeds |-> feeds \cup {p},
          status |-> [Msg("Video feed started (PID: {}). Press 'v' again to stop.")
                        EXCEPT !.value = p]]
    ELSE IF fr = "no_pid"
    THEN [pid |-> None, feeds |-> feeds \cup {p},
          status |-> Msg("Video feed started in background. Press 'v' again to stop.")]
    ELSE IF fr = "failed"
    THEN [pid |-> None, feeds |-> feeds, status |-> Msg("Failed to start video feed.")]
    ELSE [pid |-> None, feeds |-> feeds,
          status |-> [Msg("Failed to start video feed: {}") EXCEPT !.diag = "io error"]]

\* the gate is never closed
gate_always_open(t) == TRUE

\* the gate measures from App::new, not from the last command
gate_open_since_start(t) == t >= command_interval

\* the gate opens as soon as the clock has moved
gate_open_strictly_later(t) == t > last_command_time

\* app.rs:80: the rate gate, for a key event that reads the clock at t
gate_open(t) == t - last_command_time >= command_interval

\* app.rs:81-97: the camera operation of a key, "none" for the other keys
key_operation(key) ==
    CASE key \in {"Left", "Right"} -> "pan"
      [] key \in {"Up", "Down"} -> "tilt"
      [] key \in {"ShiftUp", "ShiftDown"} -> "zoom"
      [] OTHER -> "none"

\* Left and Right the wrong way round
key_delta_mirrored(key) ==
    CASE key = "Left"      -> config.pan.step
      [] key = "Right"     -> I32Neg(config.pan.step)
      [] key = "ShiftUp"   -> config.zoom.step
      [] key = "ShiftDown" -> I32Neg(config.zoom.step)
      [] key = "Up"        -> config.tilt.step
      [] key = "Down"      -> I32Neg(config.tilt.step)

\* app.rs:82-87: the delta a movement key passes, and whether negating the
\* step overflowed
key_delta(key) ==
    CASE key = "Left"      -> I32Neg(config.pan.step)
      [] key = "Right"     -> config.pan.step
      [] key = "ShiftUp"   -> config.zoom.step
      [] key = "ShiftDown" -> I32Neg(config.zoom.step)
      [] key = "Up"        -> config.tilt.step
      [] key = "Down"      -> I32Neg(config.tilt.step)

key_delta_ovf(key) ==
    CASE key = "Left"      -> I32NegOvf(config.pan.step)
      [] key = "ShiftDown" -> I32NegOvf(config.zoom.step)
      [] key = "Down"      -> I32NegOvf(config.tilt.step)
      [] OTHER             -> FALSE

\* app.rs:82-87: the call a movement key makes
camera_call(key, tr) ==
    CASE key_operation(key) = "pan"  -> set_pan(key_delta(key), key_delta_ovf(key), tr)
      [] key_operation(key) = "zoom" -> set_zoom(key_delta(key), key_delta_ovf(key), tr)
      [] key_operation(key) = "tilt" -> set_tilt(key_delta(key), key_delta_ovf(key), tr)

\* app.rs:99-106: the status line after the match
status_after(key, ok, err, status) ==
    IF ok THEN (IF key = "v" THEN status ELSE Msg("Command sent."))
    ELSE [err EXCEPT !.text = "Error: " \o err.text]

\* the time is recorded only when the operation succeeded
last_command_time_on_success(t, ok) == IF ok THEN t ELSE last_command_time

\* app.rs:107
last_command_time_after(t, ok) == t

\* what a key event did, and the how-manieth it was; a dropped event leaves no
\* trace of its key
Event(key, outcome, r) ==
    [key |-> IF outcome = "Throttled" THEN "dropped" ELSE key, outcome |-> outcome,
     op |-> IF outcome = "Throttled" THEN "none" ELSE key_operation(key),
     ok |-> r.ok, err |-> r.err,
     sent |-> r.sent, ret |-> IF outcome = "Throttled" THEN "none" ELSE r.ret,
     call |-> r.call, delta |-> r.delta,
     nth |-> IF last.nth < MaxNth THEN last.nth + 1 ELSE MaxNth,
     accepted_at |-> IF outcome = "Throttled" THEN last.accepted_at ELSE now',
     accepted_before |-> IF outcome = "Throttled" THEN last.accepted_before
                         ELSE last.accepted_at]

\* app.rs:88-96: the arms of 'v', 'q' and the other keys yield Ok(())
NoOp == [panic |-> FALSE, ok |-> TRUE, err |-> Msg(""), sent |-> "none", ret |-> "Ok(())",
         call |-> NoCall, delta |-> 0]

\* pub fn update(&mut self, InputEvent::Key(key)), dt ms after the last key event,
\* then main.rs:64-66
UpdateKey(key, dt, tr, fr, p, kr) ==
    /\ pc = "recv"
    /\ now + dt <= MaxTime
    /\ now' = now + dt
    /\ UNCHANGED <<config, overflow_checks, shown>>
    /\ IF ~gate_open(now')
       THEN /\ last' = Event(key, "Throttled", NoOp)
            /\ pc' = "draw"
            /\ UNCHANGED <<camera, app, device, feeds>>
       ELSE IF key_operation(key) # "none"
       THEN \E r \in {camera_call(key, tr)}, o \in {key_operation(key)} :
                IF r.panic
                THEN /\ pc' = "panicked"
                     /\ last' = Event(key, "Panicked", r)
                     /\ UNCHANGED <<camera, app, device, feeds>>
                ELSE /\ pan_current'  = IF o = "pan" THEN r.cur ELSE pan_current
                     /\ pan_prev'     = IF o = "pan" THEN r.prev ELSE pan_prev
                     /\ tilt_current' = IF o = "tilt" THEN r.cur ELSE tilt_current
                     /\ tilt_prev'    = IF o = "tilt" THEN r.prev ELSE tilt_prev
                     /\ zoom_current' = IF o = "zoom" THEN r.cur ELSE zoom_current
                     /\ zoom_prev'    = IF o = "zoom" THEN r.prev ELSE zoom_prev
                     /\ device' = IF r.call.made /\ r.call.result = "ok"
                                  THEN [device EXCEPT ![r.call.ctl] = r.call.value]
                                  ELSE device
                     /\ status_message' = status_after(key, r.ok, r.err, status_message)
                     /\ last_command_time' = last_command_time_after(now', r.ok)
                     /\ last' = Event(key, "Applied", r)
                     /\ pc' = "draw"
                     /\ UNCHANGED <<should_quit, video_feed_pid, feeds>>
       ELSE LET v == toggle_video_feed(fr, p, kr)
            IN  /\ (key = "v" /\ video_feed_pid = None /\ fr \in {"pid", "no_pid"}) => p \notin feeds
                /\ video_feed_pid' = IF key = "v" THEN v.pid ELSE video_feed_pid
                /\ feeds' = IF key = "v" THEN v.feeds ELSE feeds
                /\ should_quit' = (should_quit \/ key = "q")
                /\ status_message' =
                       status_after(key, TRUE, Msg(""), IF key = "v" THEN v.status ELSE status_message)
                /\ last_command_time' = last_command_time_after(now', TRUE)
                /\ last' = Event(key, "Applied", NoOp)
                /\ pc' = IF should_quit' THEN "quit" ELSE "draw"
                /\ UNCHANGED <<camera, device>>

\* pub fn update(&mut self, InputEvent::Tick), then main.rs:64-66
UpdateTick ==
    /\ pc = "recv"
    /\ pc' = "draw"
    /\ UNCHANGED <<config, overflow_checks, camera, app, now, shown, device, feeds, last>>

\* main.rs:59: terminal.draw(|f| ui::render(f, &app))
Draw ==
    /\ pc = "draw"
    /\ \E r \in {render} :
           IF r.panic
           THEN pc' = "panicked" /\ UNCHANGED shown
           ELSE pc' = "recv" /\ shown' = r.frame
    /\ UNCHANGED <<config, overflow_checks, camera, app, now, device, feeds, last>>

\* main.rs:70-78: leave the loop, restore the terminal, then app.cleanup()
Cleanup(kr) ==
    /\ pc = "quit"
    /\ pc' = "exited"
    /\ video_feed_pid' = None
    /\ feeds' = IF video_feed_pid # None THEN kill(video_feed_pid, kr) ELSE feeds
    /\ UNCHANGED <<config, overflow_checks, camera, should_quit, status_message,
                   last_command_time, now, shown, device, last>>

\* CameraController::new and App::new, for a configuration c and a build oc
New(c, oc) ==
    /\ config = c
    /\ overflow_checks = oc
    /\ pan_current = 0 /\ tilt_current = 0 /\ zoom_current = 50
    /\ pan_prev = 0 /\ tilt_prev = 0 /\ zoom_prev = 50
    /\ should_quit = FALSE
    /\ status_message = Msg("Press 'q' to quit. Arrow keys for Pan/Tilt. Shift+Arrows for Zoom. 'v' for video feed.")
    /\ last_command_time = 0
    /\ video_feed_pid = None
    /\ now = 0
    /\ pc = "draw"
    /\ shown = Blank
    /\ device = [pan_absolute |-> 0, tilt_absolute |-> 0, zoom_absolute |-> 50]
    /\ feeds = {}
    /\ last = NoEvent

Init == \E c \in Configs, oc \in BOOLEAN : New(c, oc)

Next ==
    \/ Draw
    \/ UpdateTick
    \/ \E key \in MoveKeys, dt \in Dts, tr \in TransportResults :
           UpdateKey(key, dt, tr, "failed", None, "ok")
    \/ \E dt \in Dts, fr \in SpawnResults, p \in Pids, kr \in KillResults :
           UpdateKey("v", dt, "ok", fr, p, kr)
    \/ \E key \in Keys \ (MoveKeys \cup {"v"}), dt \in Dts : UpdateKey(key, dt, "ok", "failed", None, "ok")
    \/ \E kr \in KillResults : Cleanup(kr)

Spec == Init /\ [][Next]_vars

(**************************************************************************)
(* Three key events on a fresh instance: the first t ms after App::new,   *)
(* the second 50 ms after the first, the third 60 ms after the second.    *)
(**************************************************************************)
ScenarioDts(n) ==
    IF n = 0 THEN {50, 100} ELSE IF n = 1 THEN {50} ELSE IF n = 2 THEN {60} ELSE {}

NextScenario ==
    \/ Draw
    \/ UpdateTick
    \/ \E key \in MoveKeys, dt \in ScenarioDts(last.nth), tr \in TransportResults :
           UpdateKey(key, dt, tr, "failed", None, "ok")
    \/ \E dt \in ScenarioDts(last.nth), fr \in SpawnResults, p \in Pids, kr \in KillResults :
           UpdateKey("v", dt, "ok", fr, p, kr)
    \/ \E key \in Keys \ (MoveKeys \cup {"v"}), dt \in ScenarioDts(last.nth) :
           UpdateKey(key, dt, "ok", "failed", None, "ok")
    \/ \E kr \in KillResults : Cleanup(kr)

SpecScenario == Init /\ [][NextScenario]_vars

(**************************************************************************)
(* The zoom-adjusted step on its own: a configuration of StepConfigs, the *)
(* zoom at any position of its range, and the steps that render shows.    *)
(**************************************************************************)
InitStep ==
    \E c \in StepConfigs, oc \in BOOLEAN : \E z \in c.zoom.min .. c.zoom.max :
        /\ config = c
        /\ overflow_checks = oc
        /\ pan_current = 0 /\ tilt_current = 0 /\ zoom_current = z
        /\ pan_prev = 0 /\ tilt_prev = 0 /\ zoom_prev = z
        /\ should_quit = FALSE
        /\ status_message = Msg("Command sent.")
        /\ last_command_time = 0
        /\ video_feed_pid = None
        /\ now = 0
        /\ pc = "draw"
        /\ shown = Blank
        /\ device = [pan_absolute |-> 0, tilt_absolute |-> 0, zoom_absolute |-> z]
        /\ feeds = {}
        /\ last = NoEvent

NextStep == Draw

SpecStep == InitStep /\ [][NextStep]_vars

(**************************************************************************)
(* What the properties below read off a state.                            *)
(**************************************************************************)
\* the control a camera operation drives
control_of == [pan |-> "pan_absolute", tilt |-> "tilt_absolute", zoom |-> "zoom_absolute"]

\* get_pan, get_tilt, get_zoom, by control
current_of ==
    [pan_absolute |-> pan_current, tilt_absolute |-> tilt_current, zoom_absolute |-> zoom_current]

\* pan_prev, tilt_prev, zoom_prev, by control
prev_of ==
    [pan_absolute |-> pan_prev, tilt_absolute |-> tilt_prev, zoom_absolute |-> zoom_prev]

\* a configuration without a ConfigurationError: min <= max and step > 0 on
\* every axis, and a zoom range that is not zero
ValidConfig(c) ==
    /\ \A a \in {c.pan, c.tilt, c.zoom} : a.min <= a.max /\ a.step > 0
    /\ c.zoom.max # c.zoom.min

\* a step of App::update for a key event: only these read the clock
KeyStep == now' # now

(**************************************************************************)
(* Clamping                                                               *)
(**************************************************************************)
\* C1: on every axis the current position lies in [min, max] of the axis's
\* configuration, in the initial state and after every sequence of set_pan,
\* set_tilt and set_zoom calls (stated for the configurations without a
\* ConfigurationError)
C1_ClampingInvariant ==
    ValidConfig(config) =>
        /\ config.pan.min <= pan_current /\ pan_current <= config.pan.max
        /\ config.tilt.min <= tilt_current /\ tilt_current <= config.tilt.max
        /\ config.zoom.min <= zoom_current /\ zoom_current <= config.zoom.max

(**************************************************************************)
(* Sent bookkeeping                                                       *)
(**************************************************************************)
\* C2: on every axis the last-sent value is the value of the most recent
\* transport call that succeeded (the initial value if none has); a call that
\* succeeds leaves sent = current on its axis, and a failed or skipped call, or
\* no call at all, leaves every sent value as it was
C2_SentBookkeeping ==
    /\ prev_of = device
    /\ [][ /\ prev_of' = device'
           /\ IF KeyStep /\ last'.call.made /\ last'.call.result = "ok"
              THEN /\ prev_of'[last'.call.ctl] = current_of'[last'.call.ctl]
                   /\ \A c \in DOMAIN prev_of : c # last'.call.ctl => prev_of'[c] = prev_of[c]
              ELSE prev_of' = prev_of ]_vars

\* a pan that v4l2-ctl accepted has just been recorded
C2_Witness ==
    /\ last.op = "pan" /\ last.sent = "Ok(true)" /\ last.call.result = "ok"
    /\ pan_prev = pan_current /\ pan_prev # 0

(**************************************************************************)
(* Redundant-write suppression                                            *)
(**************************************************************************)
\* C3: an operation whose clamped position equals the sent value makes no
\* transport call and reports changed = false to its caller, which tells it from
\* an operation that sent: what the caller got back differs between the two
\* (stated for the configurations without a ConfigurationError)
C3_SkipReportedUnchanged ==
    [][(ValidConfig(config) /\ KeyStep /\ last.sent = "Ok(true)" /\ last'.sent = "Ok(false)")
          => (~last'.call.made /\ last'.ret # last.ret)]_vars

(**************************************************************************)
(* The rate gate                                                          *)
(**************************************************************************)
\* C4, as stated: of any two key events handled less than command_interval
\* apart, the second is throttled and moves no axis (stated for the
\* configurations without a ConfigurationError)
C4_SecondOfTwoThrottled ==
    [][(ValidConfig(config) /\ KeyStep /\ last.key # "none"
          /\ now' - now < command_interval)
          => (last'.outcome = "Throttled" /\ UNCHANGED camera)]_vars

\* C4, amended: a key event handled less than command_interval after an
\* accepted one is throttled and moves no axis
C4_ThrottledAfterAccepted ==
    [][(KeyStep /\ last.accepted_at >= 0 /\ now' - last.accepted_at < command_interval)
          => (last'.outcome = "Throttled" /\ UNCHANGED camera)]_vars

\* an event has just been throttled, less than command_interval after an accepted one
C4_Witness ==
    /\ last.outcome = "Throttled" /\ last.accepted_at >= 0
    /\ now - last.accepted_at < command_interval

\* C5: any two accepted key events are at least command_interval apart,
\* whatever keys they are
C5_AcceptedApart ==
    last.accepted_before >= 0 => last.accepted_at - last.accepted_before >= command_interval

\* a zoom has just been accepted, command_interval after an accepted event that
\* moved the pan
C5_Witness ==
    /\ last.outcome = "Applied" /\ last.op = "zoom" /\ last.accepted_before >= 0
    /\ last.accepted_at - last.accepted_before = command_interval
    /\ pan_current # 0

\* C6: a key event that arrives with now - last_command_time < command_interval
\* is dropped: it invokes no axis operation, it changes none of the current and
\* sent positions, last_command_time and should_quit, and nothing applies it
\* later (outside the key events nothing of these changes)
C6_ThrottleFrame ==
    [][ /\ (KeyStep /\ now' - last_command_time < command_interval)
             => /\ UNCHANGED <<camera, last_command_time, should_quit, device>>
                /\ last'.outcome = "Throttled" /\ last'.op = "none" /\ ~last'.call.made
        /\ ~KeyStep => UNCHANGED <<camera, last_command_time, should_quit, device>> ]_vars

\* an event has just been dropped while the pan had a position not yet sent
C6_Witness ==
    /\ last.outcome = "Throttled" /\ now - last_command_time < command_interval
    /\ pan_current # pan_prev

\* C7: every accepted key event sets last_command_time to its timestamp,
\* whether its operation sent, skipped, failed or was no operation at all
C7_LastCommandTimeSet ==
    [][(KeyStep /\ last'.outcome = "Applied") => last_command_time' = now']_vars

\* an accepted event whose transport call failed has set the time
C7_Witness ==
    /\ last.outcome = "Applied" /\ ~last.ok /\ last.call.made
    /\ last_command_time = now /\ now > 0

(**************************************************************************)
(* Failure recovery                                                       *)
(**************************************************************************)
\* C8: when the transport call of an operation fails, the error is returned,
\* current keeps the clamped value the call was made with, and no sent value
\* advances; nothing retries outside the key events; and every operation whose
\* resulting position differs from the sent value makes a transport call with
\* that position
C8_FailureRecovery ==
    [][ /\ (KeyStep /\ last'.call.made /\ last'.call.result # "ok")
             => /\ ~last'.ok /\ last'.ret = "Err"
                /\ status_message'.text = "Error: " \o last'.err.text
                /\ current_of'[last'.call.ctl] = last'.call.value
                /\ config[last'.op].min <= last'.call.value
                /\ last'.call.value <= config[last'.op].max
                /\ prev_of' = prev_of
        /\ (KeyStep /\ last'.outcome = "Applied" /\ last'.op # "none"
              /\ current_of'[control_of[last'.op]] # prev_of[control_of[last'.op]])
             => /\ last'.call.made /\ last'.call.ctl = control_of[last'.op]
                /\ last'.call.value = current_of'[control_of[last'.op]]
        /\ ~KeyStep => (last' = last /\ device' = device) ]_vars

\* a tilt has just failed in the transport: the position moved, the sent value did not
C8_Witness ==
    /\ last.op = "tilt" /\ last.call.made /\ last.call.result = "failed" /\ ~last.ok
    /\ tilt_current # tilt_prev /\ tilt_current = last.call.value

(**************************************************************************)
(* Configuration                                                          *)
(**************************************************************************)
\* C9: no operation ever runs on a configuration with min > max or step <= 0 on
\* an axis, or with a zoom range of zero
C9_ConfigurationValidated ==
    (last.outcome = "Applied" /\ last.op # "none") => ValidConfig(config)

(**************************************************************************)
(* The zoom-adjusted step                                                 *)
(**************************************************************************)
\* C10: for a base step above zero, the zoom-adjusted step does not increase as
\* the zoom goes from zoom.min to zoom.max, is the base step at zoom.min, and is
\* floor(base * 0.1) at zoom.max
C10_ZoomAdjustedStep ==
    /\ \A base \in {config.pan.step, config.tilt.step} :
           base > 0 =>
               \A z1, z2 \in config.zoom.min .. config.zoom.max :
                   z1 <= z2 =>
                       StepMemo[<<config.zoom.min, config.zoom.max, z2, base>>].v
                           <= StepMemo[<<config.zoom.min, config.zoom.max, z1, base>>].v
    /\ (pc = "recv" /\ zoom_current = config.zoom.min /\ config.pan.step > 0)
           => shown.pan_step = config.pan.step
    /\ (pc = "recv" /\ zoom_current = config.zoom.min /\ config.tilt.step > 0)
           => shown.tilt_step = config.tilt.step
    /\ (pc = "recv" /\ zoom_current = config.zoom.max /\ config.pan.step > 0)
           => shown.pan_step = config.pan.step \div 10
    /\ (pc = "recv" /\ zoom_current = config.zoom.max /\ config.tilt.step > 0)
           => shown.tilt_step = config.tilt.step \div 10

(**************************************************************************)
(* Keys that move nothing                                                 *)
(**************************************************************************)
\* C11: an accepted key other than the pan, tilt and zoom bindings mutates no
\* axis (current and sent positions unchanged, no transport call) and its
\* outcome is Applied(Ok(false)), which tells it from the outcome of an
\* operation that sent (stated for the configurations without a
\* ConfigurationError)
C11_NonMovementNoOp ==
    [][(ValidConfig(config) /\ KeyStep /\ last'.key \in Keys \ MoveKeys)
          => /\ UNCHANGED <<camera, device>>
             /\ ~last'.call.made
             /\ last'.outcome = "Applied"
             /\ last.sent = "Ok(true)" => last'.ret # last.ret]_vars

(**************************************************************************)
(* The three-call scenario                                                *)
(**************************************************************************)
\* C12: of the first three key events on a fresh instance, at t,
\* t + 50 ms and t + 110 ms, the first is applied, the second throttled and the
\* third applied (stated for the configurations without a ConfigurationError)
C12_ThreeCalls ==
    ValidConfig(config) =>
        /\ last.nth = 1 => last.outcome = "Applied"
        /\ last.nth = 2 => last.outcome = "Throttled"
        /\ last.nth = 3 => last.outcome = "Applied"

(**************************************************************************)
(* Saturation at a bound                                                  *)
(**************************************************************************)
\* the keys that move an axis in the increase direction, and in the decrease
\* direction, with the operation of each
IncreaseKeys == [pan |-> "Right", tilt |-> "Up", zoom |-> "ShiftUp"]

DecreaseKeys == [pan |-> "Left", tilt |-> "Down", zoom |-> "ShiftDown"]

\* C13: once the current position of an axis is its max (its min) and the
\* event before has sent that value, a further accepted move in the increase (decrease)
\* direction leaves current and sent unchanged, makes no transport call and
\* returns changed = false, which tells it from a move that sent; and from
\* pan 98 with an effective step of 10 and max 100 an increase yields 100
\* (stated for the configurations without a ConfigurationError)
C13_SaturationAtBound ==
    [][ValidConfig(config) =>
         /\ \A a \in DOMAIN control_of :
               (/\ KeyStep /\ last'.outcome = "Applied"
                /\ \/ /\ last'.key = IncreaseKeys[a]
                      /\ current_of[control_of[a]] = config[a].max
                   \/ /\ last'.key = DecreaseKeys[a]
                      /\ current_of[control_of[a]] = config[a].min
                /\ prev_of[control_of[a]] = current_of[control_of[a]]
                /\ last.call.made /\ last.call.result = "ok"
                /\ last.call.ctl = control_of[a]
                /\ last.call.value = current_of[control_of[a]])
               => /\ UNCHANGED <<camera, device>>
                  /\ ~last'.call.made
                  /\ last'.ret # last.ret
         /\ (/\ KeyStep /\ last'.outcome = "Applied" /\ last'.key = "Right"
             /\ pan_current = 98 /\ config.pan.max = 100 /\ last'.delta = 10)
               => pan_current' = 100 ]_vars

(**************************************************************************)
(* Transport errors                                                       *)
(**************************************************************************)
\* C14: the error of a failed transport call, whether v4l2-ctl ran and
\* reported non-success or could not be run at all, carries the control name,
\* the attempted value and the transport's diagnostic text, and is what the
\* status message shows (stated for the configurations without a
\* ConfigurationError)
C14_TransportErrorContent ==
    (ValidConfig(config) /\ last.call.made /\ last.call.result # "ok")
        => /\ ~last.ok
           /\ last.err.ctl = last.call.ctl
           /\ last.err.value = last.call.value
           /\ last.err.diag # ""
           /\ status_message = [last.err EXCEPT !.text = "Error: " \o last.err.text]

(**************************************************************************)
(* Keys and directions                                                    *)
(**************************************************************************)
\* C15: an accepted Right, Up, Shift+Up performs the pan, tilt, zoom operation
\* in the increase direction and an accepted Left, Down, Shift+Down performs it
\* in the decrease direction, for every step above zero: the operation is the
\* one of the key's axis, the delta it adds before clamping has the sign of the
\* direction (never the opposite one, and for the zoom never zero), and the
\* position becomes the clamped sum
C15_IntentMapping ==
    [][\A a \in DOMAIN control_of :
          (/\ KeyStep /\ last'.outcome = "Applied" /\ config[a].step > 0
           /\ last'.key \in {IncreaseKeys[a], DecreaseKeys[a]})
          => /\ last'.op = a
             /\ last'.key = IncreaseKeys[a] => last'.delta >= 0
             /\ last'.key = DecreaseKeys[a] => last'.delta <= 0
             /\ a = "zoom" => last'.delta # 0
             /\ current_of'[control_of[a]]
                    = clamp(I32Add(current_of[control_of[a]], last'.delta),
                            config[a].min, config[a].max)
             /\ last'.call.made => last'.call.ctl = control_of[a] ]_vars

\* a Left has just been applied: the pan went down by the adjusted step
C15_Witness ==
    /\ last.key = "Left" /\ last.outcome = "Applied" /\ last.op = "pan"
    /\ last.delta < 0 /\ pan_current = last.delta

(**************************************************************************)
(* The steps of the three axes                                            *)
(**************************************************************************)
\* C16: an accepted pan (tilt) move sets the position to the clamped sum of
\* the position and plus or minus the zoom-adjusted step of pan.step
\* (tilt.step), the adjusted step being the one of the zoom at the time of the
\* call; and with pan -100..100 step 10, zoom 0..100 step 5 at 50, the adjusted
\* step is 5 and a pan in the increase direction goes from 0 to 5
C16_PanTiltStep ==
    [][ /\ \A a \in {"pan", "tilt"} :
              (/\ KeyStep /\ last'.outcome = "Applied" /\ config[a].step > 0
               /\ last'.key \in {IncreaseKeys[a], DecreaseKeys[a]})
              => current_of'[control_of[a]]
                     = clamp(I32Add(current_of[control_of[a]],
                                    IF last'.key = IncreaseKeys[a]
                                    THEN get_zoom_adjusted_step(config[a].step).v
                                    ELSE I32Neg(get_zoom_adjusted_step(config[a].step).v)),
                             config[a].min, config[a].max)
        /\ (/\ config.pan = ControlConfig(-100, 100, 10)
            /\ config.zoom = ControlConfig(0, 100, 5) /\ zoom_current = 50)
              => /\ get_zoom_adjusted_pan_step.v = 5
                 /\ (/\ KeyStep /\ last'.outcome = "Applied" /\ last'.key = "Right"
                     /\ pan_current = 0)
                       => pan_current' = 5 ]_vars

\* with pan -100..100 step 10 and the zoom at 50 of 0..100, the first accepted
\* key, a Right, has just moved the pan from 0 to 5
C16_Witness ==
    /\ config.pan = ControlConfig(-100, 100, 10) /\ config.zoom = ControlConfig(0, 100, 5)
    /\ zoom_current = 50 /\ last.key = "Right" /\ last.outcome = "Applied"
    /\ last.accepted_before = -1 /\ last.delta = 5 /\ pan_current = 5

\* C17: an accepted zoom key changes the zoom by exactly the configured
\* zoom.step, up for Shift+Up and down for Shift+Down, and then clamps,
\* whatever the zoom is; the zoom-derived factor has no part in it
C17_ZoomRawStep ==
    [][(KeyStep /\ last'.outcome = "Applied" /\ last'.key \in {"ShiftUp", "ShiftDown"})
          => /\ last'.delta = IF last'.key = "ShiftUp" THEN config.zoom.step
                                                        ELSE I32Neg(config.zoom.step)
             /\ zoom_current' = clamp(I32Add(zoom_current, last'.delta),
                                      config.zoom.min, config.zoom.max) ]_vars

\* a Shift+Down has just moved the zoom from 50 to 45 by the zoom.step 5, where
\* the pan and tilt steps of 10 are adjusted to 5
C17_Witness ==
    /\ last.key = "ShiftDown" /\ last.outcome = "Applied" /\ last.accepted_before = -1
    /\ config.zoom = ControlConfig(0, 100, 5) /\ last.delta = -5 /\ zoom_current = 45

(**************************************************************************)
(* Direction and independence                                             *)
(**************************************************************************)
\* C18: on every configuration without a ConfigurationError, in every
\* reachable state, an accepted move in the increase direction never lowers the
\* position of its axis and one in the decrease direction never raises it, on
\* the pan, the tilt and the zoom alike
C18_DirectionMonotone ==
    [][ValidConfig(config) =>
         \A a \in DOMAIN control_of :
             (KeyStep /\ last'.outcome = "Applied")
             => /\ last'.key = IncreaseKeys[a]
                     => current_of'[control_of[a]] >= current_of[control_of[a]]
                /\ last'.key = DecreaseKeys[a]
                     => current_of'[control_of[a]] <= current_of[control_of[a]] ]_vars

\* C19: set_pan changes at most pan_current and pan_prev, set_tilt at most
\* tilt_current and tilt_prev, set_zoom at most zoom_current and zoom_prev: the
\* current and sent values of the other two axes, what the device holds for
\* them, and the configuration are unchanged, whether the operation sent,
\* skipped, failed or panicked, and the one transport call it may make is for
\* its own control name
C19_AxisIndependence ==
    [][\A a \in DOMAIN control_of :
          (KeyStep /\ last'.key \in {IncreaseKeys[a], DecreaseKeys[a]})
          => /\ config' = config
             /\ \A b \in DOMAIN control_of \ {a} :
                    /\ current_of'[control_of[b]] = current_of[control_of[b]]
                    /\ prev_of'[control_of[b]] = prev_of[control_of[b]]
                    /\ device'[control_of[b]] = device[control_of[b]]
             /\ last'.call.made => last'.call.ctl = control_of[a] ]_vars

\* a tilt whose v4l2-ctl failed, after a pan that was sent
C19_Witness ==
    /\ last.key = "Up" /\ last.outcome = "Applied" /\ last.sent = "Err"
    /\ last.call.made /\ last.call.ctl = "tilt_absolute"
    /\ tilt_current # tilt_prev
    /\ pan_current # 0 /\ pan_prev = pan_current /\ device.pan_absolute = pan_current

(**************************************************************************)
(* The video feed                                                         *)
(**************************************************************************)
\* C20: at most one feed process started by the app is running at any time:
\* every feed that was started is the one recorded in video_feed_pid, and after
\* cleanup() none is running
C20_FeedTracking ==
    ValidConfig(config) =>
        /\ Cardinality(feeds) <= 1
        /\ feeds \subseteq {video_feed_pid}
        /\ pc = "exited" => feeds = {}

=============================================================================
